---- MODULE Spec2Model ----
(***************************************************************************)
(* Retail Store Operation Center (src/app/app.py): a Streamlit script.     *)
(* Streamlit keeps the widget values and the st.cache_data caches between  *)
(* runs and re-executes the whole script, top to bottom, each time a       *)
(* widget value changes.  The state is therefore the widget values, the    *)
(* caches and everything the latest run of the script computed; Init is    *)
(* the state after the first run with every widget at its default, and     *)
(* each action is one user interaction: a widget takes a new value and     *)
(* the script runs again.                                                  *)
(*                                                                         *)
(* Numbers.  The script computes in IEEE doubles; the model computes the   *)
(* same quantities exactly, as scaled integers:                            *)
(*   Monetary, thresholds                whole euros                       *)
(*   unit_cost, lost_margin, base_price, base_cost    tenths of a euro     *)
(*   Order_Qty, overstock/understock units            hundredths of a unit *)
(*   overstock_cost, total_cost          1e-5 euro                         *)
(*   stockout_cost                       1e-3 euro                         *)
(*   rule margins                        cents                             *)
(*   elasticity                          tenths (the slider's step)        *)
(*   center_lat, center_lon, lat, lon    1e-7 degree                       *)
(*   sim_prices, best_price              1/PctDen of a tenth of a euro     *)
(* and, where a fractional power makes the value irrational (sim_demand,   *)
(* sim_profit, best_profit), as the exact real  c * (n/d)^(e/10).          *)
(***************************************************************************)
EXTENDS Integers, Sequences, FiniteSets, TLC

VARIABLES
  \* tab1 widgets
  vip_m_threshold, vip_f_threshold, risk_recency, risk_value_floor,
  \* tab2 widgets
  buffer_pct, unit_cost, overstock_loss_rate, lost_margin,
  \* tab3 widget
  selected_item,
  \* tab4 widgets
  base_price, base_cost, base_demand, elasticity,
  \* tab5 widgets
  center_lat, center_lon, n_points,
  \* st.cache_data stores, one per decorated function: argument tuple -> value
  rfm_cache, forecast_cache, geo_cache,
  \* how many times each decorated function's body has run, per argument tuple
  rfm_calls, forecast_calls, geo_calls,
  \* what the latest run of each "with tabN:" block computed, by variable name:
  \*   tab1: df_rfm, vip_count, risk_count, risk_value, risk_frequency_mean
  \*   tab2: df_inv, overstock_cost, stockout_cost, total_cost
  \*   tab3: rule, total_margin, strategy
  \*   tab4: sim_prices, sim_demand, sim_profit, max_idx, best_price, best_profit
  \*   tab5: df_map
  tab1, tab2, tab3, tab4, tab5,
  \* the tab blocks the latest run of the script executed
  ran,
  \* number of user interactions so far
  interactions,
  \* the tab4 computation taken on its own: its inputs and what it computed
  sim_input, sim_output

tab1_widgets == <<vip_m_threshold, vip_f_threshold, risk_recency, risk_value_floor>>
tab2_widgets == <<buffer_pct, unit_cost, overstock_loss_rate, lost_margin>>
tab3_widgets == <<selected_item>>
tab4_widgets == <<base_price, base_cost, base_demand, elasticity>>
tab5_widgets == <<center_lat, center_lon, n_points>>
caches == <<rfm_cache, forecast_cache, geo_cache, rfm_calls, forecast_calls, geo_calls>>
vars == <<tab1_widgets, tab2_widgets, tab3_widgets, tab4_widgets, tab5_widgets,
          caches, tab1, tab2, tab3, tab4, tab5, ran, interactions,
          sim_input, sim_output>>

(***************************************************************************)
(* Bounds of the model.                                                    *)
(***************************************************************************)
\* Interactions explored when every widget may change (specification Spec).
MaxInteractions == 2

(***************************************************************************)
(* Arithmetic helpers.                                                     *)
(***************************************************************************)
Abs(x) == IF x < 0 THEN -x ELSE x

Maximum(a, b) == IF a >= b THEN a ELSE b

RECURSIVE GCD(_, _)
GCD(a, b) == IF b = 0 THEN Abs(a) ELSE GCD(b, a % b)

RECURSIVE IntPow(_, _)
IntPow(x, k) == IF k = 0 THEN 1 ELSE x * IntPow(x, k - 1)

RECURSIVE SumRange(_, _, _)
SumRange(s, lo, hi) ==
  IF lo > hi THEN 0
  ELSE IF lo = hi THEN s[lo]
  ELSE SumRange(s, lo, (lo + hi) \div 2) + SumRange(s, (lo + hi) \div 2 + 1, hi)

SumSeq(s) == SumRange(s, 1, Len(s))

Column(df, c) == [i \in 1..Len(df) |-> df[i][c]]

(***************************************************************************)
(* numpy's legacy generator.  np.random.seed(s) re-initialises MT19937;    *)
(* MT19937(s) is the stream of 32-bit outputs that follows, of which the   *)
(* model keeps the low 13 bits (all that a range below 8192 reads) of as   *)
(* many draws as the generators consume.                                   *)
(* Every generator of the script seeds before it draws, so the stream      *)
(* position left by earlier draws never reaches a result.                  *)
(***************************************************************************)
\* After np.random.seed(42).
MT19937_42 ==
    <<
       7270, 7603, 860, 5390, 5226, 5191, 3772, 3092, 5734, 6265, 466, 5334, 4426, 5578, 6231, 3444,
       3171, 2919, 7831, 130, 1685, 7476, 769, 2391, 5611, 7581, 6949, 2433, 5311, 5051, 6420, 1184,
       4555, 3385, 4117, 6396, 4843, 2904, 7728, 474, 1082, 2558, 7849, 2047, 7643, 2747, 975, 1806,
       189, 7101, 2734, 3005, 4658, 1899, 7734, 1267, 6975, 1528, 3202, 3556, 3890, 646, 6164, 2888,
       6310, 5393, 2435, 600, 2363, 2061, 241, 2041, 2824, 7513, 2612, 7041, 1363, 6235, 5486, 7099,
       1478, 7595, 2556, 775, 4014, 34, 6349, 3152, 1955, 1585, 3943, 7555, 3073, 1021, 3461, 2613,
       5225, 3843, 7989, 1500, 4798, 6545, 6873, 5675, 161, 4297, 1981, 995, 6413, 8030, 4911, 3342,
       4551, 7629, 3798, 1275, 1016, 7869, 6439, 7892, 6863, 7916, 337, 878, 1076, 4887, 3993, 6360,
       4859, 6331, 379, 492, 7208, 5276, 2062, 3884, 64, 8024, 8006, 2568, 5463, 5248, 2027, 2695,
       1495, 7230, 5258, 5618, 6736, 391, 5794, 4514, 6432, 4474, 5892, 3561, 2278, 7161, 6184, 3099,
       6278, 200, 5959, 4875, 7073, 3104, 7215, 4598, 2454, 3645, 5847, 804, 6242, 2731, 5991, 2773,
       8154, 1570, 5056, 7906, 6756, 8110, 5581, 2690, 3840, 1028, 7385, 502, 6910, 4493, 870, 6938,
       4488, 206, 5134, 5977, 7721, 7035, 1484, 7858, 7742, 863, 2790, 7408, 563, 5116, 4191, 6019,
       1757, 6628, 7574, 6374, 6892, 1678, 3242, 4636, 1059, 6668, 5279, 8006, 1722, 3314, 3157, 5915,
       2625, 2729, 6700, 1597, 8120, 3060, 2693, 4891, 5147, 5739, 3627, 1363, 7965, 1981, 5450, 1663,
       1529, 2038, 7515, 5592, 3302, 2237, 7392, 5504, 5496, 1306, 4029, 6776, 2675, 5068, 5864, 1282,
       7526, 709, 5575, 5530, 4744, 4413, 3748, 7392, 7986, 5353, 4779, 663, 1998, 7994, 3445, 3743,
       5727, 1495, 3304, 3763, 5232, 1853, 5616, 6585, 4659, 1291, 3581, 7974, 3457, 7554, 7280, 1636,
       3696, 2999, 3152, 698, 2160, 4097, 4737, 6363, 5685, 854, 8164, 5855, 7392, 6528, 3474, 5757,
       5249, 5172, 1707, 2777, 5791, 1733, 5535, 6390, 4931, 3510, 202, 3255, 4218, 4496, 766, 4389,
       2327, 8004, 2931, 7777, 197, 7125, 1930, 3582, 6895, 6287, 608, 3272, 1147, 4282, 3397, 2511,
       7516, 1794, 659, 2811, 7098, 6051, 6546, 1369, 1986, 5630, 146, 3219, 2911, 1734, 1843, 488,
       2976, 1959, 5759, 6694, 2385, 2919, 4736, 1802, 8155, 8120, 6616, 6065, 6294, 5534, 4061, 3369,
       5730, 262, 5883, 6287, 6489, 623, 1016, 8179, 3643, 4976, 2049, 7040, 5423, 6397, 3723, 4548,
       3108, 5279, 4090, 7158, 2056, 7400, 3170, 1682, 6959, 2255, 1154, 4499, 6295, 6197, 3191, 1696,
       3991, 4723, 4682, 1648, 8135, 5539, 1445, 4199, 3923, 253, 7394, 3183, 2557, 5592, 98, 2200,
       5980, 2961, 6015, 4973, 4433, 3777, 2869, 3234, 3791, 956, 5800, 4067, 160, 5699, 6944, 4493,
       1300, 4911, 3987, 1527, 6015, 5511, 5254, 1218, 4496, 4735, 3104, 2735, 4555, 954, 8050, 4565,
       3446, 1045, 6893, 1693, 6181, 6373, 3436, 562, 2485, 5895, 3354, 6170, 225, 7444, 4893, 7776,
       6427, 7022, 959, 5600, 4548, 3067, 7996, 815, 4754, 7683, 4642, 5311, 3120, 7679, 16, 7339,
       1243, 2205, 2524, 1069, 3444, 2565, 6242, 8059, 5864, 1060, 2327, 3420, 6640, 301, 4276, 606,
       3170, 699, 5088, 1139, 190, 2300, 980, 2975, 6102, 1184, 3327, 3394, 127, 2065, 1816, 8169,
       5854, 6709, 569, 5442, 1895, 2733, 3863, 4721, 7455, 4014, 2901, 1686, 3009, 7806, 154, 2537,
       1409, 4057, 784, 3175, 8096, 7560, 7978, 4341, 7343, 7206, 5596, 5801, 2806, 537, 5986, 1841,
       5016, 2455, 524, 6971, 5625, 2950, 7992, 4131, 4780, 4115, 2368, 3847, 6655, 8173, 4495, 2701,
       971, 6002, 6614, 1166, 5211, 7521, 4929, 5919, 2774, 1982, 853, 4146, 3736, 3769, 574, 3261,
       1148, 6293, 6457, 6713, 7509, 6448, 1715, 4777, 4933, 3854, 5173, 7146, 2491, 2660, 7136, 6407,
       3124, 5691, 3051, 7787, 4, 5222, 5315, 4869, 876, 991, 7027, 7517, 4142, 7010, 6966, 7079,
       7987, 6799, 4364, 4465, 635, 5225, 1693, 1682, 4752, 119, 830, 5906, 3675, 5177, 6070, 1369,
       740, 7641, 116, 5949, 2838, 1150, 7560, 1931, 1012, 1664, 1081, 4729, 512, 7918, 2849, 5215,
       7805, 5237, 559, 3672, 4583, 7404, 8052, 4992, 3343, 5308, 4070, 4799, 1470, 580, 6933, 7004,
       2294, 8130, 3147, 4249, 1679, 3506, 5092, 7253, 2744, 3356, 4045, 1243, 5188, 3118, 5104, 2141,
       5869, 5053, 3059, 4548, 5323, 2959, 2265, 6617, 2479, 6484, 4646, 1635, 5408, 7421, 1757, 4452,
       2070, 5881, 6665, 5877, 8004, 7267, 2849, 3251, 7390, 8073, 6905, 3730, 2489, 1631, 2816, 1015,
       1348, 8172, 4611, 3087, 2839, 335, 5878, 6401, 4592, 8155, 895, 6303, 3546, 851, 1687, 1931,
       6833, 3746, 2427, 1568, 4000, 5052, 2738, 3498, 5732, 5387, 8002, 7744, 5536, 5287, 3913, 1066,
       7723, 4380, 2444, 4107, 5726, 3373, 3969, 7420, 2546, 753, 2082, 2774, 2896, 4185, 775, 6748,
       8089, 7113, 1625, 3069, 417, 114, 616, 3974, 3267, 825, 7668, 5745, 1516, 3146, 412, 7543,
       7587, 728, 3348, 7164, 2808, 675, 3465, 5988, 2504, 2967, 6335, 2786, 7856, 1122, 4079, 1571,
       5073, 5104, 8166, 2143, 1687, 6806, 7357, 7903, 4132, 3851, 3440, 3766, 5644, 2326, 6360, 2914,
       4968, 5917, 5392, 3952, 6205, 595, 5999, 728, 1365, 4492, 698, 7186, 6320, 5731, 395, 6588,
       7400, 8082, 4171, 4360, 2502, 1819, 717, 2782, 7551, 7731, 4946, 3577, 5486, 143, 4980, 3140,
       7266, 4491, 7192, 7091, 2938, 5588, 7651, 3636, 3222, 1167, 2616, 1062, 2156, 7860, 5161, 5305,
       2982, 6541, 3294, 4729, 1156, 7330, 5334, 732, 4330, 8010, 6801, 4846, 6731, 7176, 7241, 953,
       2539, 7056, 3324, 3301, 1542, 5293, 5772, 1191, 6313, 5512, 2993, 6938, 2681, 1217, 1540, 6172,
       3236, 5541, 2386, 3719, 5615, 1388, 1856, 1365, 499, 1680, 510, 7494, 4312, 1324, 1155, 1827,
       3141, 7419, 3486, 1810, 6588, 2923, 5301, 2214, 4186, 713, 5977, 3602, 4134, 7293, 3522, 4268,
       4748, 4849, 1243, 3709, 1081, 5779, 6619, 455, 4924, 894, 1384, 1958, 3072, 6530, 1996, 6491,
       4285, 504, 1214, 1531, 3440, 7576, 823, 928, 5029, 5236, 133, 2105, 3627, 4780, 6815, 6316,
       1852, 4910, 5268, 4175, 2933, 3284, 4298, 2811, 5348, 5795, 1250, 5778, 5651, 3512, 7569, 6190,
       1256, 3376, 5645, 5262, 3486, 3584, 1396, 3637, 8053, 3330, 2703, 470, 8120, 7114, 5131, 1353,
       2783, 2831, 5063, 357, 3019, 7575, 667, 4468, 5127, 1145, 5467, 6819, 4185, 3719, 2745, 7483,
       7345, 539, 2779, 4964, 4136, 4835, 3775, 6042, 6645, 7102, 7312, 5320, 5024, 6132, 7891, 2508,
       2779, 6895, 924, 2956, 1581, 7714, 3324, 4485, 5713, 7026, 255, 4804, 1838, 1944, 6593, 9,
       2871, 797, 7409, 7418, 4972, 5124, 7286, 1015, 1824, 4469, 3136, 2193, 223, 5358, 6320, 5898,
       4948, 7449, 4158, 5336, 3925, 6970, 6938, 4784, 5580, 4000, 1633, 2152, 7266, 510, 384, 404,
       8175, 6966, 4613, 4571, 2000, 2756, 8030, 1668, 5989, 6914, 1460, 7190, 7140, 3636, 2724, 4809,
       7625, 4178, 5264, 7252, 7245, 6600, 5997, 2048, 4146, 4780, 716, 7939, 5565, 4544, 4976, 4583,
       1823, 2081, 3419, 6238, 7239, 1574, 6297, 249, 673, 4533, 2165, 770, 3962, 7473, 4363, 1984,
       1077, 235, 388, 3037, 7901, 4858, 1848, 6544, 4719, 2814, 3374, 7062, 3278, 1252, 6996, 3981,
       4673, 2122, 4530, 2150, 7589, 7871, 4859, 6881, 6949, 1329, 6241, 8017, 6941, 1358, 7002, 2482,
       4542, 2017, 1331, 4344, 4261, 7648, 7127, 1358, 5115, 4637, 4854, 3177, 7730, 2128, 2180, 4892,
       7043, 137, 6327, 3472, 5449, 2832, 3579, 5971, 3031, 4164, 2593, 7941, 6196, 5569, 4300, 6269,
       3818, 4138, 3823, 4042, 1906, 6254, 760, 7830, 7350, 6991, 6238, 6090, 3445, 6031, 7687, 899,
       4455, 2947, 1719, 280, 3266, 1887, 3266, 666, 4188, 671, 1969, 4156, 6777, 3122, 7570, 7956,
       5124, 5585, 4699, 4777, 3900, 6677, 5524, 6981, 7680, 6788, 6376, 523, 2393, 3117, 2593, 1968,
       5197, 1753, 5932, 8090, 7240, 6937, 2296, 6190, 5240, 2261, 2286, 5175, 6493, 4202, 2878, 4143,
       3644, 4432, 5145, 6947, 5376, 2055, 4720, 5986, 1276, 5811, 2766, 302, 638, 55, 4821, 525,
       4569, 4123, 8150, 2125, 3287, 7553, 364, 6809, 4621, 6842, 5431, 4978, 5126, 5122, 1646, 918,
       2797, 6506, 5870, 1531, 8172, 3345, 7673, 6949, 6882, 1906, 3086, 5311, 8152, 5750, 4580, 2075,
       713, 1062, 1976, 1296, 5350, 6229, 7641, 125, 6955, 4632, 6288, 3596, 3283, 6168, 1603, 7561,
       66, 232, 2156, 1169, 2158, 6371, 4206, 1493, 6177, 4718, 7943, 4007, 7536, 6891, 6738, 7721,
       2472, 2660, 5637, 2739, 5401, 7487, 1761, 3514, 1975, 2362, 876, 6085, 3812, 3448, 1312, 1460,
       2709, 2324, 1733, 1605, 5622, 6767, 2563, 3421, 6986, 3517, 7997, 2397, 5726, 3735, 2870, 1160,
       4854, 7042, 242, 2590, 1063, 4324, 2595, 919, 5342, 5, 7489, 467, 5851, 4170, 3, 5966,
       645, 117, 2928, 5725, 2551, 6117, 5042, 6717, 5560, 4289, 846, 2762, 5511, 7193, 5554, 6316,
       7467, 5764, 6469, 5529, 1141, 6979, 1810, 723, 224, 4627, 4208, 6283, 4654, 2048, 6233, 4749,
       4415, 1573, 1828, 1917, 4234, 7678, 8035, 6988, 2026, 6402, 3744, 901, 4785, 2039, 9, 260,
       6038, 1673, 2219, 7041, 2060, 5287, 3713, 1619, 320, 1342, 5732, 2376, 2832, 2824, 1994, 2958,
       6039, 7717, 2038, 3490, 3677, 1118, 7984, 1604, 6461, 4027, 235, 1969, 4429, 1908, 375, 3530,
       5256, 8097, 2635, 8162, 1570, 2560, 5415, 3391, 2965, 3643, 5951, 5468, 8007, 3850, 872, 1252,
       6413, 5947, 6941, 1314, 4820, 7332, 6148, 2898, 7546, 77, 7577, 2621, 4227, 600, 5868, 1065,
       2136, 2449, 2343, 1863, 1318, 4711, 3597, 6943, 3762, 7804, 6565, 5984, 5142, 4670, 2190, 992,
       2712, 2192, 1248, 3054, 4598, 4033, 1997, 4916, 3687, 2151, 4018, 3110, 1970, 197, 5765, 2626,
       6534, 1202, 8135, 6697, 5567, 7667, 7182, 5742, 5788, 5408, 2035, 477, 1254, 922, 419, 2204,
       2597, 7608, 1120, 3068, 7140, 7578, 950, 2336, 5373, 2243, 2645, 1857, 7689, 4612, 5754, 1865,
       2912, 5237, 2853, 6028, 7326, 4910, 6371, 5996, 6359, 7091, 7863, 6158, 3228, 3719, 7428, 3228,
       6190, 2371, 2891, 3756, 4225, 7578, 94, 2674, 6898, 1955, 7459, 793, 1834, 7450, 2116, 5779,
       4106, 3325, 5961, 2919, 2597, 3205, 4807, 6166, 814, 345, 2349, 362, 2443, 2265, 2188, 7783,
       3005, 3281, 984, 7136, 7790, 1639, 827, 2730, 3531, 7147, 4451, 7151, 5443, 7300, 2935, 3876,
       5959, 126, 3177, 3056, 603, 7966, 3449, 6024, 5109, 4146, 7196, 3533, 3367, 3368, 3797, 6922,
       5526, 1792, 2861, 5732, 3476, 3417, 1645, 6563, 1205, 3030, 2872, 3072, 1854, 4021, 4662, 6514,
       5031, 6030, 2708, 3502, 7112, 1332, 7304, 201, 3507, 6456, 4212, 7833, 5032, 7970, 574, 6387,
       536, 1625, 2122, 7973, 385, 8070, 3281, 474, 417, 6490, 3600, 6783, 5034, 954, 4971, 4858,
       5298, 1205, 4759, 4120, 1990, 5299, 4805, 3572, 5975, 5280, 6320, 4380, 4158, 5098, 4757, 2713,
       2203, 8049, 5588, 3120, 966, 4944, 5203, 3432, 688, 4243, 3701, 341, 6619, 5182, 1724, 5479,
       6704, 4422, 1792, 1759, 3212, 989, 2262, 2482, 8058, 951, 722, 3389, 2079, 2717, 2332, 3376,
       4524, 1500, 285, 7311, 3495, 7186, 2065, 768, 6733, 5490, 7342, 3057, 4289, 6645, 5083, 5232,
       2161, 3293, 5797, 946, 4926, 7811, 6016, 3335, 7068, 4150, 8038, 7810, 4895, 4873, 1481, 8146,
       1901, 6305, 3451, 4064, 6230, 54, 7643, 1823, 5297, 3462, 7516, 3079, 832, 4408, 2806, 5954,
       6103, 6102, 2490, 5886, 8188, 327, 7221, 6904, 3310, 3300, 6722, 7218, 7776, 3675, 3054, 5383,
       7585, 7970, 2143, 5207, 7245, 1311, 3191, 6957, 2538, 3983, 4547, 5619, 164, 4277, 6612, 5005,
       6878, 822, 943, 6097, 6150, 4425, 774, 7840, 2198, 3156, 4242, 3695, 3452, 914, 5667, 1308,
       6843, 4177, 513, 1920, 6958, 6852, 6035, 3594, 4841, 7166, 1409, 4802, 4566, 3190, 4491, 1555,
       6404, 804, 5029, 1279, 5853, 5000, 7393, 5172, 7083, 5986, 5619, 3577, 2901, 1387, 5399, 4688,
       2761, 7325, 2679, 2106, 8173, 7894, 4223, 4831, 2768, 3953, 3186, 3280, 2573, 4616, 2599, 4033,
       236, 1304, 3430, 7368, 5877, 1301, 7402, 2541, 2051, 6809, 441, 2076, 3180, 2657, 3798, 804,
       74, 6981, 7313, 2175, 3924, 2089, 5475, 40, 7077, 2081, 7184, 5796, 7320, 7141, 5497, 4683,
       1622, 7796, 8041, 341, 4052, 2074, 7992, 7454, 645, 4826, 4263, 609, 6411, 5868, 6136, 6964,
       454, 2953, 1708, 3472, 2969, 3028, 7643, 4797, 2681, 3629, 5695, 4225, 3067, 5941, 1386, 3776,
       2866, 4788, 3363, 5490, 4889, 4124, 148, 3850, 5415, 2058, 7679, 6819, 1136, 186, 2854, 6887,
       1250, 1333, 4193, 4150, 6766, 2711, 4853, 4501, 6212, 7479, 5408, 1785, 7715, 750, 7315, 7634,
       1762, 7411, 7658, 3920, 7101, 7674, 4460, 6122, 481, 6344, 153, 7617, 1524, 2120, 6856, 2343,
       5136, 5760, 1240, 60, 938, 1639, 6185, 4120, 5158, 7970, 4226, 3569, 1252, 4203, 171, 1458,
       3549, 4197, 7009, 6667, 2322, 1636, 3115, 8122, 4090, 6960, 3004, 5136, 329, 3640, 3894, 5616,
       7982, 4107, 1341, 3663, 215, 338, 5895, 4062, 2708, 3152, 1750, 5604, 2421, 7119, 709, 5319,
       7704, 6609, 5208, 5387, 3726, 3642, 3993, 488, 8044, 5657, 46, 3359, 4873, 5135, 4806, 400,
       3990, 5913, 7124, 3157, 4345, 390, 3853, 4430, 628, 7686, 4232, 2930, 6831, 8007, 1521, 826,
       4822, 1500, 6737, 3294, 5085, 2419, 934, 3042, 4497, 1466, 3561, 614, 5392, 7693, 1182, 3223,
       7138, 2667, 6331, 7980, 5217, 130, 6948, 5290, 2983, 7129, 4278, 7126, 4459, 38, 7694, 3959,
       6640, 3587, 5468, 7125, 920, 7564, 2769, 7328, 4111, 492, 5545, 1131, 7037, 3521, 310, 738,
       3241, 545, 2461, 4346, 4854, 1804, 3212, 5393, 7583, 5727, 3810, 6010, 7206, 813, 8179, 4124,
       5053, 2032, 4572, 4413, 244, 4843, 4792, 271, 3511, 1771, 1262, 2424, 4361, 7069, 920, 8190,
       3430, 4435, 4484, 2624, 8157, 3760, 2050, 3500, 1165, 375, 7837, 2033, 6467, 145, 6077, 4388,
       7832, 431, 704, 7092, 8173, 6094, 2632, 4494, 6960, 8056, 7511, 963, 7307, 2234, 2041, 1828,
       2108, 4068, 938, 7547, 4805, 806, 1463, 7486, 5421, 3415, 10, 5181, 1868, 6369, 7320, 7878,
       6707, 4867, 5690, 5703, 7827, 8028, 7742, 5429, 884, 7410, 3564, 1389, 3401, 7274, 4321, 824,
       2265, 936, 2800, 2553, 6402, 6007, 3845, 7684, 1796, 53, 7214, 726, 2736, 5640, 3170, 5139,
       1913, 5872, 1596, 1914, 7657, 2466, 2737, 849, 2109, 7312, 6359, 2, 4255, 7906, 4069, 4876,
       7287, 892, 2030, 3160, 2376, 4675, 1933, 1380, 3681, 1290, 1640, 5047, 7490, 2682, 987, 7708,
       7816, 1218, 5016, 6881, 1355, 4265, 4616, 5582, 4135, 1560, 7428, 1418, 954, 7393, 983, 7291,
       974, 4133, 6471, 5370, 3972, 5295, 5721, 913, 4549, 36, 3387, 1711, 3020, 795, 4036, 5068,
       4688, 5233, 3111, 1324, 6367, 317, 2396, 2162, 2745, 5442, 1591, 3111, 5985, 6183, 3930, 1996,
       5868, 1312, 1285, 4311, 7314, 2383, 3239, 2139, 6496, 6714, 7738, 6959, 1704, 6924, 362, 2604,
       7512, 1716, 5289, 4451, 4286, 3738, 2469, 4795, 6150, 6276, 7914, 556, 825, 2808, 8178, 5150,
       6678, 4521, 7561, 2719, 6506, 3508, 3741, 1574, 3998, 2129, 2403, 3329, 7885, 588, 2012, 1547,
       294, 1985, 5343, 5644, 3117, 1690, 1136, 5352, 2064, 4455, 7390, 7009, 4795, 4543, 6999, 6508,
       4770, 1007, 5445, 2514, 6557, 3526, 4681, 5352, 1247, 5089, 3902, 1435, 571, 2382, 1245, 2084,
       5084, 277, 5315, 7059, 1887, 4579, 1265, 7491, 4826, 6335, 1040, 6667, 917, 6544, 8073, 885,
       2752, 21, 4569, 3191, 8186, 6353, 2353, 7437, 4799, 686, 284, 4811, 3747, 762, 5346, 5043,
       2428, 2507, 5126, 28, 906, 3104, 7813, 7022, 6222, 3999, 2994, 2506, 4665, 6102, 3609, 3553,
       1453, 4833, 3356, 515, 6096, 7266, 6540, 7656, 38, 3342, 886, 2844, 2204, 1098, 7027, 1823,
       3201, 5806, 5069, 3155, 3093, 3530, 5658, 3778, 2896, 3453, 6891, 3511, 7771, 988, 4116, 6446,
       8143, 4964, 4026, 4179, 7941, 1682, 6072, 7620, 5506, 5626, 7424, 4665, 3963, 933, 3598, 3233,
       1980, 7330, 1855, 3056, 792, 791, 7691, 1809, 5390, 6635, 2255, 3610, 1607, 5179, 6573, 984,
       5776, 3676, 3380, 519, 590, 1050, 5805, 3633, 6131, 6342, 6530, 4444, 959, 6059, 692, 5655,
       3899, 4473, 2946, 7059, 7725, 526, 3224, 6877, 2253, 6598, 3344, 3965, 5355, 1875, 1763, 520,
       5797, 8111, 1016, 7099, 7998, 6869, 5109, 6644, 116, 2433, 5463, 583, 394, 5183, 3788, 2768,
       4167, 3860, 273, 2013, 5439, 4433, 1389, 3566, 4702, 165, 1567, 6154, 5420, 728, 6944, 2043,
       4197, 3496, 5511, 778, 213, 3762, 5207, 1576, 2448, 6731, 2936, 3117, 5791, 7630, 591, 5429,
       5205, 6235, 7827, 2720, 713, 935, 6047, 4337, 6139, 8032, 1, 6368, 2848, 5864, 4044, 1949,
       8096, 6732, 6259, 7833, 917, 3174, 2241, 7333, 7014, 89, 1709, 2169, 8177, 4238, 3041, 105,
       886, 427, 5424, 1895, 6090, 316, 6082, 634, 1925, 2056, 6917, 3144, 7526, 2270, 1439, 552,
       7537, 715, 5383, 3911, 1713, 5979, 3389, 1107, 5437, 4206, 250, 2430, 2054, 458, 5203, 207,
       899, 3461, 3385, 21, 409, 894, 514, 7294, 4904, 7867, 4969, 4109, 5066, 7121, 7157, 7179,
       2134, 3595, 2956, 1560, 5420, 1266, 2169, 7314, 3638, 749, 3427, 4780, 1927, 3804, 3702, 2356,
       4790, 2335, 306, 7979, 3665, 1989, 7057, 7890, 661, 4644, 7519, 311, 2920, 1082, 7810, 2971,
       5833, 754, 4130, 4540, 6236, 8117, 6078, 5326, 352, 902, 5451, 3888, 7005, 5844, 158, 1977,
       956, 2071, 403, 6948, 4611, 2779, 1387, 3453, 6675, 955, 6295, 7729, 1712, 7090, 4703, 7784,
       6563, 1273, 7284, 7009, 5631, 3811, 2625, 2382, 1441, 2979, 1797, 4390, 4009, 4850, 1394, 4281,
       1269, 4732, 5387, 3714, 7404, 529, 3623, 6164, 2958, 7904, 2914, 4889, 3591, 2147, 6895, 4573,
       5718, 3369, 939, 525, 6477, 1, 374, 2340, 6980, 4005, 3052, 4648, 2365, 1525, 5947, 4476,
       1646, 13, 4599, 2278, 6104, 3155, 129, 3814, 4933, 3216, 2938, 3928, 2040, 27, 2113, 7330,
       1252, 4356, 2046, 5568, 5543, 4555, 4023, 7843, 4396, 7062, 3374, 6430, 3466, 3081, 3778, 629,
       269, 2639, 1993, 5724, 5897, 2891, 4957, 3432, 1280, 6276, 7443, 5895, 5802, 7115, 6656, 2360,
       575, 7029, 6099, 1307, 3192, 3178, 6052, 2734, 6116, 7371, 2212, 2352, 3568, 1655, 1579, 5943,
       2203, 1390, 1742, 1925, 619, 1274, 956, 1939, 3953, 2381, 7809, 968, 6654, 1316, 1043, 281,
       2844, 7168, 6262, 1058, 4293, 2532, 3828, 5178, 6980, 5280, 1008, 6834, 1229, 1035, 4585, 275,
       2740, 2289, 1239, 5370, 7978, 125, 4065, 4312, 7473, 3868, 1208, 7206, 5342, 7351, 6638, 6570,
       3249, 918, 7595, 5413, 3923, 6294, 6527, 5757, 7980, 4403, 5455, 1969, 2793, 891, 4470, 7175,
       2033, 1364, 128, 1014, 1799, 6812, 7519, 5477, 4612, 1518, 4181, 1198, 3873, 7360, 6454, 5238,
       7385, 2474, 6089, 3485, 6257, 4049, 7312, 7705, 3719, 302, 6887, 3952, 4683, 986, 1863, 4440,
       4909, 6083, 6944, 3072, 7314, 5406, 6095, 5773, 3124, 1327, 5188, 2408, 3673, 8125, 3291, 4033,
       5105, 703, 8133, 574, 5704, 3232, 7848, 5208, 4783, 6924, 2632, 3828, 6732, 3230, 488, 7114,
       1347, 3681, 7548, 3173, 4589, 1667, 1637, 4114, 7621, 3553, 7761, 6540, 1000, 7446, 850, 1388,
       5450, 3712, 1367, 8189, 821, 454, 1624, 2772, 3726, 7232, 3147, 4089, 4806, 2190, 916, 3986,
       2875, 6748, 5592, 1440, 4400, 735, 3568, 6434, 6059, 6245, 6105, 3338, 7010, 3015, 7789, 7117,
       2889, 961, 2989, 3848, 1026, 6228, 3865, 6471, 2863, 5569, 2501, 1947, 6772, 7388, 1177, 4760,
       11, 5252, 8161, 4399, 3364, 3022, 3371, 5859, 2830, 42, 943, 2390, 5445, 7981, 2545, 2411,
       4986, 6570, 1004, 20, 406, 6762, 1014, 4431, 1838, 3188, 5243, 6542, 6936, 5923, 714, 4146,
       3854, 4419, 4884, 140, 4565, 4882, 5921, 5453, 6012, 963, 7151, 372, 3635, 2541, 3610, 1692,
       6894, 5275, 6434, 5767, 7311, 105, 5539, 6813, 1681, 4097, 4016, 2636, 6787, 2137, 3416, 4445,
       3530, 1286, 7518, 3179, 7753, 5158, 7052, 6302, 3654, 7102, 2359, 7408, 8105, 444, 6441, 5047,
       35, 5203, 1475, 3957, 1798, 1845, 1408, 5291, 5495, 1708, 5481, 6702, 2938, 6284, 7030, 8085,
       7285, 1300, 6869, 1243, 3976, 3097, 4616, 5902, 9, 5079, 2425, 5752, 1660, 6825, 2631, 6295,
       4815, 1072, 3225, 4954, 1316, 5699, 4145, 6807, 6674, 3683, 7227, 7334, 3273, 7000, 145, 5010,
       7843, 8137, 3040, 1462, 6385, 4676, 6830, 1584, 482, 3179, 1249, 4768, 630, 6804, 8144, 661,
       3503, 2852, 7822, 2466, 987, 7622, 7327, 1546, 649, 968, 2637, 1100, 6652, 440, 7421, 5016,
       769, 1343, 5922, 4358, 7764, 3729, 3906, 1577, 7541, 6780, 7334, 4008, 7920, 6602, 5094, 3351,
       4795, 2349, 3602, 5699, 1241, 1125, 2601, 6431, 1190, 6764, 5101, 4131, 4839, 5860, 4448, 7843,
       6018, 72, 6791, 5472, 1914, 5189, 2472, 3046, 707, 1804, 6704, 6971, 3713, 5051, 2564, 2475,
       3610, 4255, 6292, 2823, 7397, 1735, 1585, 66, 3061, 7979, 2428, 4153, 7426, 341, 8005, 5249,
       2774, 5291, 2817, 2661, 1232, 3874, 2401, 1494, 5917, 4211, 7431, 661, 3883, 5561, 3619, 6596,
       1868, 7644, 2334, 3374, 1016, 4406, 207, 2665, 2493, 6813, 632, 2102, 2959, 3083, 4752, 5519,
       1931, 3719, 7123, 2562, 1679, 7709, 236, 7446, 4443, 6770, 7271, 4725, 1540, 6099, 3943, 5367,
       363, 2368, 7800, 285, 148, 5203, 4037, 6549, 7121, 4551, 1766, 4895, 5280, 1012, 2831, 2507,
       7717, 1523, 2785, 2556, 3725, 7971, 4576, 5782, 6257, 6892, 1601, 2408, 340, 2817, 6106, 6904,
       7112, 2496, 5962, 4930, 5299, 1725, 7574, 1689, 3267, 7633, 4406, 261, 1442, 405, 8106, 2190,
       4437, 5435, 7268, 243, 4585, 4107, 7406, 560, 4137, 2725, 593, 5548, 1826, 3229, 3287, 4073,
       5789, 7629, 133, 3138, 3919, 7174, 5043, 7693, 72, 4494, 5524, 7842, 6721, 7002, 4225, 2978,
       7633, 7373, 5907, 6097, 7935, 4361, 5656, 1985, 792, 6396, 6965, 5408, 4259, 94, 5901, 6976,
       1133, 6479, 4917, 237, 6524, 7603, 2946, 2530, 1960, 7045, 1048, 5772, 7284, 2529, 7559, 2964,
       7137, 963, 536, 7246, 5699, 7340, 6075, 7179, 7967, 4223, 3679, 4187, 3724, 542, 845, 3603,
       5777, 3036, 5947, 2494, 4485, 2719, 1884, 4138, 4349, 3201, 5179, 2710, 6610, 6430, 7154, 5636,
       7634, 1953, 6921, 6488, 4737, 6525, 3850, 689, 5372, 1950, 5175, 5582, 456, 5078, 2130, 3976,
       5218, 4244, 5448, 1179, 4285, 3565, 882, 6406, 7247, 399, 6907, 608, 7427, 5891, 1638, 5671,
       6928, 2148, 1382, 1403, 819, 3292, 819, 419, 4219, 4517, 3302, 7857, 7230, 1508, 7795, 7870,
       5693, 767, 2044, 6626, 6662, 6298, 2139, 3029, 1549, 6598, 1764, 6140, 2645, 3716, 4605, 5302,
       4481, 5693, 7898, 6548, 2293, 4837, 7758, 2708, 6793, 7638, 7993, 6007, 5542, 900, 6208, 3084,
       6356, 2009, 241, 6636, 7380, 7860, 2385, 6116, 4268, 671, 163, 464, 3042, 4592, 4795, 2442,
       4798, 6036, 2355, 5887, 4278, 4724, 7961, 2557, 5827, 545, 5683, 4719, 3835, 593, 4839, 7394,
       5864, 3804, 1459, 6044, 3493, 2601, 6164, 6697, 2444, 2672, 4200, 6335, 16, 3191, 392, 424,
       6272, 7297, 571, 3631, 6172, 1120, 7177, 241, 3897, 4095, 8123, 2279, 788, 7451, 714, 4854,
       2849, 775, 4026, 6869, 2247, 7088, 78, 8080, 7099, 3926, 855, 7340, 6610, 6724, 5535, 7083,
       6592, 6230, 2148, 1031, 4940, 3271, 3576, 4182, 6186, 3456, 7788, 3506, 407, 7650, 2711, 3088,
       1668, 147, 6420, 4327, 3897, 1950, 365, 7395, 1674, 4531, 4494, 5330, 5510, 2546, 6683, 562,
       3562, 2489, 5380, 772, 6493, 2037, 3423, 2567, 5439, 6281, 1573, 3694, 5087, 6511, 3291, 7504,
       1246, 3719, 3839, 359, 5016, 2376, 3009, 6606, 2993, 962, 3632, 1827, 7549, 6979, 1613, 1640,
       2216, 4312, 377, 4214, 4285, 6910, 369, 5897, 2196, 3747, 651, 5978, 5607, 769, 2421, 780,
       1716, 6303, 6494, 3983, 1311, 3359, 7035, 5345, 522, 521, 4878, 2320, 935, 7569, 2230, 4040,
       5784, 4583, 5946, 4941, 6267, 8185, 7128, 3697, 2837, 4083, 2461, 6099, 5844, 3243, 3359, 7602,
       685, 2160, 7031, 3988, 4066, 6265, 1567, 5341, 7798, 38, 2544, 4875, 1256, 2990, 7697, 2196,
       3468, 7165, 2708, 7805, 6023, 301, 7527, 6381, 646, 4758, 6379, 1759, 6346, 4351, 597, 661,
       4330, 1368, 2581, 7003, 3868, 7948, 3537, 4865, 6684, 4308, 4558, 6579, 282, 7729, 3678, 1486,
       4082, 5526, 4183, 5163, 460, 2325, 3754, 2468, 1724, 1376, 2743, 514, 702, 1653, 2066, 22,
       2460, 5149, 5926, 6251, 7534, 1304, 7295, 3300, 5230, 6279, 361, 7353, 3727, 7751, 6272, 5995,
       1284, 514, 448, 6019, 7271, 5602, 5343, 1855, 4969, 8033, 3562, 2520, 3081, 1428, 3967, 6445,
       6374, 5850, 922, 3137, 7080, 2159, 5132, 5512
    >>

\* After np.random.seed(7).
MT19937_7 ==
    <<
       4271, 1220, 537, 2550, 5699, 4307, 919, 5735, 1372, 3257, 7566, 2583, 3656, 4441, 4462, 6698,
       2778, 5000, 3239, 6118, 1092, 1456, 6015, 391, 7084, 7680, 5195, 2871, 2298, 7174, 7955, 3516,
       3116, 3775, 1349, 3896, 1176, 4279, 2997, 7280, 4859, 7357, 4032, 4386, 312, 6345, 5582, 6694,
       772, 6638, 1161, 8023, 7651, 1219, 7240, 8019, 5040, 257, 1728, 2448, 7542, 6047, 5469, 2988
    >>

MT19937(seed) ==
  CASE seed = 42 -> MT19937_42
    [] seed = 7 -> MT19937_7

RECURSIVE MaskFrom(_, _)
MaskFrom(m, rng) == IF m >= rng THEN m ELSE MaskFrom(2 * m + 1, rng)

\* Smallest 2^k - 1 that is >= rng.
gen_mask(rng) == MaskFrom(0, rng)

\* Masked rejection: a draw of the stream is masked and kept if it is <= rng.
\* The positions after pos whose draw is kept, in order.
bounded_masked(seed, pos, rng, mask) ==
  SelectSeq([k \in 1..Len(MT19937(seed)) |-> k],
            LAMBDA k : k > pos /\ MT19937(seed)[k] % (mask + 1) <= rng)

\* np.random.randint(low, high) called n times (or once with size n) from
\* stream position pos: n integers of low..high-1 and the position reached.
randint_n(seed, pos, low, high, n) ==
  LET mask == gen_mask(high - 1 - low)
      kept == bounded_masked(seed, pos, high - 1 - low, mask)
  IN  [vals |-> [i \in 1..n |-> low + (MT19937(seed)[kept[i]] % (mask + 1))],
       pos  |-> IF n = 0 THEN pos ELSE kept[n]]

\* The k-th value of np.random.normal(0, 1) after np.random.seed(11), in 1e-5.
legacy_gauss_11 ==
  <<
    174945, -28607, -48457, -265332, -828, -31963, -53663, 31540, 42105, -106560, -88624, -47573,
    68968, 56119, -130555, -111948, 73684, 157463, -3108, -68345, 109563, -30958, 72575, 154907,
    63008, 7349, 73227, -64258, -17809, -57395, -20438, -48650, -18578, -38054, 8898, 6367,
    29635, 140277, -154686, 129562, -23725, -123235, -17242, 9184, 106756, -106163, 21735, 11782,
    -168411, -118576, 60010, 69557, 108771, 53382, 39521, 12287, 120910, -84307, -14189, 38535,
    -157749, 131094, -79287, -7175, 215667, -82944, -52937, 156170, -108019, -43206, 51608, 45539,
    59369, 37051, 134538, 101594, 59528, -68280, -71356, -190829, 68731, -182301, 87911, 184636,
    -106165, -68448, -47621, 83031, -86335, -13054, -52309, -25128, 129127, -96420, 7176, 27161,
    85867, -126407, 111487, 43478, 87427, 7165, -163905, -64730, 81777, 3679, -4870, 179153,
    220186, -3707, 193291, -199357, -204906, 86706, -26196, 57897, 51655, -8940, 68213, 15072,
    -153214, 21887, 18566, 183278, -112889, 1700, -42443, -13291, 165920, 37864, -46457, 15384,
    76616, -99403, -26434, 154221, 85615, -4480, -47749, -15407, -155108, 94304, 34115, 13827,
    -129742, -71496, 51448, 25772, -49673, 50502, 93878, -67502, -53086, -86986, -115526, 79667,
    51003, 33871, -117212, -104597, -6767, -41321, 12008, -69897, 65402, 179948, 154661, 160987,
    7102, 92158, -37683, 91998, -37842, -48898, -64439, 69914, 27541, 18633, -113981, 14180,
    -144072, 147651, -13155, 19443, -10515, -158396, -137177, -2832, 149247, -111524, -70541, -4723,
    -168728, -169734, -41145, -4528, -39117, 153422, -16419, 36037, 159805, 170372, -158952, -37725,
    116251, -137886, -92400, -129751, -136193, -113419, 17684, 126893, 152802, 1189, -197057, -5663,
    -33920, 35232, -12841, -179611, 41328, -206784, -69011, 31175, 35037, 157135, -236241, 33998,
    68938, -32721, 63803, -110200, 65703, 53822, -98163, -66664, -18982, -65609, 104440, 17517,
    131473, 117525, 6085, -19310, -94666, -80461, -80119, 34785, -88367, 7866, 19259, -49623,
    -18622, 144537, 161198, -78263, -19461, -37213, -27577, 153514, 68645, 125992, 177688, -44031,
    -18721, 4041, 102604, -9100, 64579, 116831, 116323, 44668, -78872, -155410, 112163, 45660,
    -93748, -50508, -44880, -167495, 25155, -78704, -29441, 73970, -9564, 54305, 42239, 3167,
    4883, 186161, -17068, 162767, -91400, 72940, 17091, -72925, -264746, 159492, -115520, -96305,
    12963, 5714, 27880, -25408, -149962, 86701, -90469, 22329, 57444, 118223, -21790, -30544,
    -23331, -184859, -75482, -100438, -114986, 16769, -31149, 159627, 148896, -188245, 12258, -100116,
    55619, 15812, 93052, 31083, 76121, -29857, -250809, -118508, -85493, -49015, -101216, 163318,
    -16816, 129605, -33827, 165427, -120028, 59966, -132996, 44206, 158670, -163399, -87198, 24524,
    -18593, -136904, 115669, 5231, 129355, 31862, -115340, -48124, 138210, -138586, -46580, 60062,
    101503, 82736, -147420, 208638, -16467, 1224, -301, -23195, -96710, -32696, 132234, -136215,
    -243225, 53497, 33766, 72786, 172719, -72529, 17716, 50257, 123162, 102592, -84301, -137750,
    -27268, -161287, 110955, -39479, -35611, -89000, 152354, 28785, -41234, 61143, -8548, 59350,
    131881, -26488, 51214, 47789, 113419, 59434, 3228, -64289, 29467, -104638, 65446, 5937,
    54890, -51985, -80189, -91352, 110670, -21908, -23033, -178966, -5712, -346028, 136218, -24174,
    2092, -142865, -109585, 60465, -20854, 42923, 127083, 66324, -189894, -98449, -113573, -90996,
    -208023, -205173, -74379, -59800, 51633, -32476, 142144, -182691, -139172, 24931, -27407, -98983,
    76786, 108688, 130871, -40075, -917, 22570, 5526, 101827, -49319, 36797, -221271, 75290,
    163744, -2878, 103503, -166416, -33523, -154406, 31699, 52079, -137271, -84862, -58724, 242086,
    -7488, 11870, 35917, 29623, -24061, -133270, -68097, 163299, 25475, -37378, -135457, -5741,
    3015, -65416, 89043, -59029, -16980, 84136, 22293, 112156, -23053, -43368, 46696, 21362,
    118473, 40529, -2699, 44887, 65472, -112134, -14343, -33457, 120017, -48513, 106355, -126500,
    -5552, 106717, -26082, 115256, -202731, 2718, 16128, -12551, -150839, 66613, -233031, 94851,
    29174, 98713, -25388, -111096, -51590, -46382, 59871, -31107, 41532, 48517, 142253, -198540,
    -40067, 69248, 69554, -55286, -25580, -8388, 14185, -55097, -62969, -110391, -36522, 140189,
    -93187, 97975, 195674, 22360, 237966, -11628, 169206, -1939, -118216, 37767, 191702, -55453,
    51488, -95929, -84669, 49334, -14495, 60529, 131364, -113596, -64325, 8955, 236204, -27639,
    -43262, 48895, 216088, -52499, -24698, 10247, 81849, 224545, -117977, -159360, 22726, 60721,
    -215583, -53668, 103861, -44559, 56612, 25825, 73655, 52095, 34987, 133618, -46905, 21723,
    122409, -46344, -27274, -65342, -83851, 212398, 57291, 197994, 83642, 18194, -17601, 36982,
    6169, 101732, -76586, 27439, 56836, -12473, -12639, 65534, 66521, 228, 9147, -45138,
    65960, -1714, -146372, -21092, 71148, 37691, -79330, 82469, 69289, 69422, 160749, -25016,
    68101, -17943, 106010, 123143, 55844, 81190, -74395, 68639, -112636, 221900, 120831, -147567,
    -260970, 134395, -81361, 58069, -126264, 10247, -61626, 62451, -30899, 150853, -73525, 129985,
    312, 53908, -157441, -173548, 106554, -121272, -32641, -30782, -88928, 21296, -139906, -117856,
    93128, -79506, 74921, 66946, 152259, 46031, -182584, -64451, -40715, 123154, 34843, -48497,
    43744, -35547, 54960, 15371, 110896, 33543, 99572, -1073, 71213, -15160, 64372, 22406,
    -12394, -41948, -27372, 47357, -229178, 124072, -236742, -18966, -32952, 73941, 23577, -4319,
    8390, 94625, 234106, 37707, -205934, -41921, 41973, 331468, -76542, -37208, 55922, 32328,
    -132386, 94711, -131607, -26656, 132476, -131880, -34439, 167011, -26059, -104866, -58216, 83647,
    -156912, -63348, -145894, -115848, 128727, -8446, -43984, 42521, -71578, -120589, 114700, 87806,
    -84841, 70437, 146017, 49095, 50016, -124440, -13489, -187536, 111504, -17474, 132582, -77814,
    87653, -159369, -40914, 54656, 35570, -6127, -165783, 132821, 66215, 114472, 113163, -38045,
    39272, 266285, -84550, 40841, -56669, 176175, 17322, -105085, -61239, -142322, -230393, -274193,
    -73795, -114566, 14758, -83912, 22369, 178809, -119366, -122949, 99118, 236966, -88774, -171358,
    -29824, -41405, 71551, -107934, -27037, -31938, -160219, -159558, 44738, 54901, -81124, 158087,
    94308, 46573, 61400, 35004, 72800, 87274, 6496, -208854, -16997, -85257, -121425, 59992,
    -181833, 83765, -65790, -125686, -89388, 236826, 149056, -29712, 107748, 180409, -89741, -30142,
    92748, 39957, -38879, 164944, 50998, 79867, 243150, 49147, 269293, 30432, -17197, 12430,
    88399, 66230, 37281, -152470, -111999, -28052, 73487, 146775, -246307, -16319, -48101, -12497,
    20122, -88656, -136819, 101961, 75340, -44247, -14018, -72382, -145709, 64637, -69972, -116311,
    -63317, 165748, 43508, 22296, 7495, 86347, 73051, -135237, -26472, -68422, 19821, -8616,
    -206532, 115102, 24211, -179881, 114077, 9741, 45274, -106, 13180, -55099, -173733, -67093,
    14294, -360, 62000, -14388, -233964, 69720, -87842, -142517, -38476, -145149, 30487, -100667,
    191241, -32192, -63596, -73662, -227200, -95834, -84576, -41073, -233557, -3208, 123962, -50734,
    -12316, 36710, -88128, -51089, 90940, 13450, -130629, -187069, 227745, 40508, -166138, 11507,
    64978, 8340, -194603, 181201, 58013, -22736, 66942, -25189, -36255, 88745, -203500, 100429,
    39197, 76214, 92073, 157834, 146497, 89981, -39153, 70650, -48045, -96360, 47696, 37974,
    122985, -216047, 62966, 70607, 13970, 153505, -86103, 37370, -34742, 1795, -95246, -10677,
    72049, 15848, 38835, -74178, 165215, -67025, 5894, 63719, -14525, 81005, 23720, 177189,
    60055, 44548, -77866, 51093, 106044, 46210, -90470, -51612, -19788, 5654, -136861, 193229,
    -6781, 14740, -41604, -1285, 197180, -93199, -49891, -102260, -53306, 157026, -61465, -44076,
    -180796, -34458, 24870, -47454, -38311, 82609, 55205, -8471, -77007, -149879, 171558, -154001,
    67164, -17838, -71863, 91223
  >>

legacy_gauss(seed) == CASE seed = 11 -> legacy_gauss_11

Bump(calls, key) ==
  IF key \in DOMAIN calls THEN [calls EXCEPT ![key] = @ + 1] ELSE calls @@ (key :> 1)

\* Variant: a store with a single slot, which ignores the argument tuple once
\* it holds a value.
cache_data_one_slot(cache, calls, key, value) ==
  IF DOMAIN cache # {}
  THEN [cache |-> cache, calls |-> calls,
        value |-> cache[CHOOSE k \in DOMAIN cache : TRUE]]
  ELSE [cache |-> cache @@ (key :> value), calls |-> Bump(calls, key), value |-> value]

\* @st.cache_data, keyed by the argument tuple: on a hit the stored value is
\* returned (as a fresh copy) and the body does not run; on a miss the body runs
\* and its value is stored.
cache_data(cache, calls, key, value) ==
  IF key \in DOMAIN cache
  THEN [cache |-> cache, calls |-> calls, value |-> cache[key]]
  ELSE [cache |-> cache @@ (key :> value), calls |-> Bump(calls, key), value |-> value]

(***************************************************************************)
(* Tab 1: CRM (RFM).                                                       *)
(***************************************************************************)
\* load_rfm_data(n=1000, seed=42), called without arguments.
NCustomers == 1000
RfmSeed == 42

load_rfm_data(n, seed) ==
  LET recency   == randint_n(seed, 0, 1, 120, n)
      frequency == randint_n(seed, recency.pos, 1, 25, n)
      monetary  == randint_n(seed, frequency.pos, 20, 6000, n)
  IN  [i \in 1..n |->
         [CustomerID |-> 1000 + (i - 1),
          Recency    |-> recency.vals[i],
          Frequency  |-> frequency.vals[i],
          Monetary   |-> monetary.vals[i]]]

\* Variant: the At-Risk test placed before the VIP test.
segment_at_risk_first(row, vip_m, vip_f, risk_r, risk_floor) ==
  IF (row.Recency >= risk_r) /\ (row.Monetary >= risk_floor) THEN "At Risk"
  ELSE IF (row.Monetary >= vip_m) /\ (row.Frequency >= vip_f) THEN "VIP"
  ELSE "Standard"

\* segment(row), with the four slider values it closes over as parameters.
segment(row, vip_m, vip_f, risk_r, risk_floor) ==
  IF (row.Monetary >= vip_m) /\ (row.Frequency >= vip_f) THEN "VIP"
  ELSE IF (row.Recency >= risk_r) /\ (row.Monetary >= risk_floor) THEN "At Risk"
  ELSE "Standard"

SourceOf(row) ==
  [CustomerID |-> row.CustomerID, Recency |-> row.Recency,
   Frequency |-> row.Frequency, Monetary |-> row.Monetary]

\* Variant: Segment computed once, under the sliders' default positions.
apply_segment_default(df, vip_m, vip_f, risk_r, risk_floor) ==
  [i \in 1..Len(df) |->
     SourceOf(df[i]) @@ [Segment |-> segment(df[i], 3000, 10, 60, 800)]]

\* df_rfm["Segment"] = df_rfm.apply(segment, axis=1)
apply_segment(df, vip_m, vip_f, risk_r, risk_floor) ==
  [i \in 1..Len(df) |->
     SourceOf(df[i]) @@ [Segment |-> segment(df[i], vip_m, vip_f, risk_r, risk_floor)]]

\* df[df["Segment"] == name]
users_of(df, name) == SelectSeq(df, LAMBDA row : row.Segment = name)

\* What pandas gives for the mean of no values: 0.0 / 0, shown as "nan".
NaN == [num |-> 0, den |-> 0]

\* Series.mean(): sum over count, NaN for an empty series; no exception.
mean(s) == IF Len(s) = 0 THEN NaN
           ELSE LET g == GCD(SumSeq(s), Len(s))
                IN  [num |-> SumSeq(s) \div g, den |-> Len(s) \div g]

\* Variant: the sum taken over the unfiltered frame.
sum_all_rows(df, name) == SumSeq(Column(df, "Monetary"))

\* risk_users["Monetary"].sum(): 0 for an empty selection.
monetary_sum(df, name) == SumSeq(Column(users_of(df, name), "Monetary"))

\* load_rfm_data(): the script passes no argument, so n and seed are the defaults.
load_rfm(cache, calls) ==
  cache_data(cache, calls, <<NCustomers, RfmSeed>>, load_rfm_data(NCustomers, RfmSeed))

\* The "with tab1:" block, given the frame load_rfm_data() returned.
Tab1(w, loaded) ==
  LET df == apply_segment(loaded, w.vip_m_threshold, w.vip_f_threshold,
                          w.risk_recency, w.risk_value_floor)
      risk_users == users_of(df, "At Risk")
      vip_users  == users_of(df, "VIP")
  IN  [df_rfm |-> df,
       vip_count |-> Len(vip_users),
       risk_count |-> Len(risk_users),
       risk_value |-> monetary_sum(df, "At Risk"),
       risk_frequency_mean |-> mean(Column(risk_users, "Frequency"))]

(***************************************************************************)
(* Tab 2: Inventory (forecast and ordering).                               *)
(***************************************************************************)
ForecastSeed == 7
Periods == 30
base == 100

\* pandas dayofweek of a start date: Monday is 0; 2026-01-01 is a Thursday.
dayofweek(start) == CASE start = "2026-01-01" -> 3

\* Date is the number of days after start; weekend days forecast 1.35 * base.
load_forecast_data(start, periods, seed) ==
  LET noise == randint_n(seed, 0, -12, 12, periods)
  IN  [i \in 1..periods |->
         [Date     |-> i - 1,
          Forecast |-> (IF (dayofweek(start) + (i - 1)) % 7 >= 5
                        THEN (base * 135) \div 100 ELSE base) + noise.vals[i]]]

\* Forecast * (1 + buffer_pct / 100), in hundredths of a unit.
order_qty(forecast, buffer) == forecast * (100 + buffer)

apply_order_qty(df, buffer) ==
  [i \in 1..Len(df) |->
     [Date |-> df[i].Date, Forecast |-> df[i].Forecast,
      Order_Qty |-> order_qty(df[i].Forecast, buffer)]]

\* Variant: the absolute deviation in place of the positive part.
overstock_units_abs(df) ==
  [i \in 1..Len(df) |-> Abs(df[i].Order_Qty - 100 * df[i].Forecast)]

\* np.maximum(Order_Qty - Forecast, 0) and np.maximum(Forecast - Order_Qty, 0)
overstock_units(df) ==
  [i \in 1..Len(df) |-> Maximum(df[i].Order_Qty - 100 * df[i].Forecast, 0)]

understock_units(df) ==
  [i \in 1..Len(df) |-> Maximum(100 * df[i].Forecast - df[i].Order_Qty, 0)]

overstock_cost_of(df, cost, loss_rate) == SumSeq(overstock_units(df)) * cost * loss_rate

stockout_cost_of(df, margin) == SumSeq(understock_units(df)) * margin

load_forecast(cache, calls) ==
  cache_data(cache, calls, <<"2026-01-01", Periods, ForecastSeed>>,
             load_forecast_data("2026-01-01", Periods, ForecastSeed))

\* The "with tab2:" block, given the frame load_forecast_data() returned.
Tab2(w, loaded) ==
  LET df   == apply_order_qty(loaded, w.buffer_pct)
      over == overstock_cost_of(df, w.unit_cost, w.overstock_loss_rate)
      out  == stockout_cost_of(df, w.lost_margin)
  IN  [df_inv |-> df,
       overstock_cost |-> over,
       stockout_cost |-> out,
       total_cost |-> over + 100 * out]

(***************************************************************************)
(* Tab 3: Basket (association rules).                                      *)
(***************************************************************************)
\* support, confidence in hundredths; lift in tenths; margins in cents.
rules_db ==
  [Beer    |-> [target |-> "Chips", support |-> 8, confidence |-> 62, lift |-> 50,
                driver_margin |-> 10, target_margin |-> 70],
   Milk    |-> [target |-> "Bread", support |-> 12, confidence |-> 41, lift |-> 18,
                driver_margin |-> 5, target_margin |-> 35],
   Diapers |-> [target |-> "Beer", support |-> 3, confidence |-> 28, lift |-> 35,
                driver_margin |-> 200, target_margin |-> 10]]

\* Variant: the branch taken on lift instead of on the margins.
strategy_by_lift(r) == IF r.lift > 30 THEN "Loss Leader" ELSE "Bundle"

\* The branch taken at the recommendation: st.success (Loss Leader) or st.info (Bundle).
strategy_of(r) == IF r.driver_margin < r.target_margin THEN "Loss Leader" ELSE "Bundle"

Tab3(w) ==
  LET r == rules_db[w.selected_item]
  IN  [rule |-> r,
       total_margin |-> r.driver_margin + r.target_margin,
       strategy |-> strategy_of(r)]

(***************************************************************************)
(* Exact arithmetic for tab 4.  Prices are integers in units of 1/PctDen   *)
(* of a tenth of a euro.  A Real is the number  c * (n/d)^(e/10)  with c   *)
(* an integer, n/d > 0 in lowest terms and e an integer number of tenths;  *)
(* n = d = 1 and e = 0 when the power is 1.                                *)
(***************************************************************************)
Sign(x) == IF x > 0 THEN 1 ELSE IF x < 0 THEN -1 ELSE 0

\* a/b < c/d for positive integers, by continued fractions (no products).
RECURSIVE FracLess(_, _, _, _)
FracLess(a, b, c, d) ==
  IF a \div b # c \div d THEN a \div b < c \div d
  ELSE IF c % d = 0 THEN FALSE
  ELSE IF a % b = 0 THEN TRUE
  ELSE FracLess(d, c % d, b, a % b)

\* (a/b)^k < (c/d)^m for positive integers, any integers k >= 0 and m.
PowLess(a, b, k, c, d, m) ==
  LET g == GCD(a, b)
      h == GCD(c, d)
  IN  IF m >= 0
      THEN FracLess(IntPow(a \div g, k), IntPow(b \div g, k),
                    IntPow(c \div h, m), IntPow(d \div h, m))
      ELSE FracLess(IntPow(a \div g, k), IntPow(b \div g, k),
                    IntPow(d \div h, -m), IntPow(c \div h, -m))

\* Variant: a zero exponent yields 0.
power_zero_to_zero(n, d, e) ==
  IF e = 0 THEN [c |-> 0, n |-> 1, d |-> 1, e |-> 0]
  ELSE IF n = d THEN [c |-> 1, n |-> 1, d |-> 1, e |-> 0]
  ELSE LET g == GCD(n, d) IN [c |-> 1, n |-> n \div g, d |-> d \div g, e |-> e]

\* (n/d) ** (e/10) for n/d > 0: exactly 1 when e = 0 or n = d.
power(n, d, e) ==
  IF e = 0 \/ n = d THEN [c |-> 1, n |-> 1, d |-> 1, e |-> 0]
  ELSE LET g == GCD(n, d) IN [c |-> 1, n |-> n \div g, d |-> d \div g, e |-> e]

\* k * x for an integer k.
scale(k, x) ==
  IF k = 0 THEN [c |-> 0, n |-> 1, d |-> 1, e |-> 0]
  ELSE [c |-> k * x.c, n |-> x.n, d |-> x.d, e |-> x.e]

\* The Real that is the integer k.
RealOf(k) == [c |-> k, n |-> 1, d |-> 1, e |-> 0]

\* x < y for Reals with x.c > 0, y.c > 0 and one exponent: with e/10 = p/q in
\* lowest terms,  x.c (x.n/x.d)^(p/q) < y.c (y.n/y.d)^(p/q)  iff
\* (x.c/y.c)^q < ((y.n x.d)/(y.d x.n))^p.
PosLess(x, y) ==
  LET e == IF x.e # 0 THEN x.e ELSE y.e
      g == GCD(e, 10)
  IN  PowLess(x.c, y.c, 10 \div g, y.n * x.d, y.d * x.n, e \div g)

\* x < y on the Reals of one simulation.
RealLess(x, y) ==
  IF Sign(x.c) # Sign(y.c) THEN Sign(x.c) < Sign(y.c)
  ELSE IF x.c = 0 THEN FALSE
  ELSE IF x.c > 0 THEN PosLess(x, y)
  ELSE PosLess([y EXCEPT !.c = -y.c], [x EXCEPT !.c = -x.c])

RealEq(x, y) == ~RealLess(x, y) /\ ~RealLess(y, x)

(***************************************************************************)
(* Tab 4: Pricing (constant elasticity).                                   *)
(***************************************************************************)
NSamples == 60

\* The sampled range is -0.2 .. 0.2, that is -1/RangeDen .. 1/RangeDen.
RangeDen == 5

\* price_change_pct and the ratio price / base_price are counted in 1/PctDen.
PctDen == RangeDen * (NSamples - 1)

\* Variant: np.linspace(..., endpoint=False), rounded towards zero.
linspace_open(start, stop, num) ==
  [i \in 1..num |-> ((start * num + (i - 1) * (stop - start)) * (num - 1)) \div num]

\* np.linspace(start/RangeDen, stop/RangeDen, num): num evenly spaced values,
\* both ends included, in units of 1/(RangeDen * (num - 1)).
linspace(start, stop, num) ==
  [i \in 1..num |-> start * (num - 1) + (i - 1) * (stop - start)]

price_change_pct == linspace(-1, 1, NSamples)

\* Variant: np.argmin.
RECURSIVE argmin_from(_, _, _, _)
argmin_from(s, n, i, best) ==
  IF i > n THEN best
  ELSE IF RealLess(s[i], s[best]) THEN argmin_from(s, n, i + 1, i)
  ELSE argmin_from(s, n, i + 1, best)

argmin(s) ==
  UNION {{j - 1 : j \in {i \in 1..Len(s) : ~RealLess(s[best], s[i])}} :
           best \in {argmin_from(s, Len(s), 2, 1)}}

RECURSIVE argmax_from(_, _, _, _)
argmax_from(s, n, i, best) ==
  IF i > n THEN best
  ELSE IF RealLess(s[best], s[i]) THEN argmax_from(s, n, i + 1, i)
  ELSE argmax_from(s, n, i + 1, best)

\* np.argmax on the doubles: the 0-based index of their first maximum.  Where
\* one exact value is larger than all others, that is its index.  Where several
\* exact values tie for the maximum, the doubles computed for them differ by
\* rounding (or not at all) and the index returned is that of any of them,
\* depending on how the build's pow and multiplication round: argmax is the
\* set of the indices np.argmax can return.
argmax(s) ==
  UNION {{j - 1 : j \in {i \in 1..Len(s) : ~RealLess(s[i], s[best])}} :
           best \in {argmax_from(s, Len(s), 2, 1)}}

\* base_price * (1 + price_change_pct)
price_at(pct, w) == w.base_price * (PctDen + pct)

\* base_demand * (price / base_price) ** elasticity
demand_at(price, w) ==
  scale(w.base_demand, power(price, w.base_price * PctDen, w.elasticity))

\* (price - base_cost) * demand
profit_at(price, w) == scale(price - w.base_cost * PctDen, demand_at(price, w))

\* Variant: the block reading tab 2's unit_cost as the product cost.
Tab4_unit_cost(w) ==
  LET v      == [w EXCEPT !.base_cost = w.unit_cost]
      prices == [i \in 1..NSamples |-> price_at(price_change_pct[i], v)]
      demand == [i \in 1..NSamples |-> demand_at(prices[i], v)]
      profit == [i \in 1..NSamples |-> profit_at(prices[i], v)]
  IN  {[sim_prices |-> prices,
        sim_demand |-> demand,
        sim_profit |-> profit,
        max_idx |-> idx,
        best_price |-> prices[idx + 1],
        best_profit |-> profit[idx + 1]] : idx \in argmax(profit)}

\* The "with tab4:" block: the results one run can compute from the widget
\* values w (one result, unless exact profits tie for the maximum).
Tab4(w) ==
  LET prices == [i \in 1..NSamples |-> price_at(price_change_pct[i], w)]
      demand == [i \in 1..NSamples |-> demand_at(prices[i], w)]
      profit == [i \in 1..NSamples |-> profit_at(prices[i], w)]
  IN  {[sim_prices |-> prices,
        sim_demand |-> demand,
        sim_profit |-> profit,
        max_idx |-> idx,
        best_price |-> prices[idx + 1],
        best_profit |-> profit[idx + 1]] : idx \in argmax(profit)}

\* Floating point is deterministic: a run whose inputs are those of the
\* previous run rounds as the previous run did.
same_rounding(outcomes, previous, same_inputs) ==
  IF same_inputs /\ previous \in outcomes THEN {previous} ELSE outcomes

(***************************************************************************)
(* Tab 5: Location.                                                        *)
(***************************************************************************)
GeoSeed == 11

\* np.random.normal(loc, 0.02, n) twice after np.random.seed(seed): the first n
\* values of the stream give lat, the next n give lon; 0.02 * g is 2 * g in the
\* model's units (g in 1e-5, degrees in 1e-7).
load_geo_data(lat0, lon0, n, seed) ==
  LET g == legacy_gauss(seed)
  IN  [i \in 1..n |-> [lat |-> lat0 + 2 * g[i], lon |-> lon0 + 2 * g[n + i]]]

load_geo(w, cache, calls) ==
  cache_data(cache, calls, <<w.center_lat, w.center_lon, w.n_points, GeoSeed>>,
             load_geo_data(w.center_lat, w.center_lon, w.n_points, GeoSeed))

\* The "with tab5:" block: the frame load_geo_data returned goes to st.map.
Tab5(loaded) == [df_map |-> loaded]

(***************************************************************************)
(* The script and the session.                                             *)
(***************************************************************************)
AllTabs == {"tab1", "tab2", "tab3", "tab4", "tab5"}

\* The widget values the script reads.
Widgets ==
  [vip_m_threshold |-> vip_m_threshold, vip_f_threshold |-> vip_f_threshold,
   risk_recency |-> risk_recency, risk_value_floor |-> risk_value_floor,
   buffer_pct |-> buffer_pct, unit_cost |-> unit_cost,
   overstock_loss_rate |-> overstock_loss_rate, lost_margin |-> lost_margin,
   selected_item |-> selected_item,
   base_price |-> base_price, base_cost |-> base_cost,
   base_demand |-> base_demand, elasticity |-> elasticity,
   center_lat |-> center_lat, center_lon |-> center_lon, n_points |-> n_points]

\* No entry: a function with the empty domain.
Empty == [k \in {} |-> 0]

\* A widget changed: Streamlit runs the script again, top to bottom, with the
\* new values.  Every "with tabN:" block executes, whichever widget changed and
\* whichever tab is shown.
Rerun ==
  /\ rfm_cache' = load_rfm(rfm_cache, rfm_calls).cache
  /\ rfm_calls' = load_rfm(rfm_cache, rfm_calls).calls
  /\ tab1' = Tab1(Widgets', load_rfm(rfm_cache, rfm_calls).value)
  /\ forecast_cache' = load_forecast(forecast_cache, forecast_calls).cache
  /\ forecast_calls' = load_forecast(forecast_cache, forecast_calls).calls
  /\ tab2' = Tab2(Widgets', load_forecast(forecast_cache, forecast_calls).value)
  /\ tab3' = Tab3(Widgets')
  /\ tab4' \in same_rounding(Tab4(Widgets'), tab4, tab4_widgets' = tab4_widgets)
  /\ geo_cache' = load_geo(Widgets', geo_cache, geo_calls).cache
  /\ geo_calls' = load_geo(Widgets', geo_cache, geo_calls).calls
  /\ tab5' = Tab5(load_geo(Widgets', geo_cache, geo_calls).value)
  /\ ran' = AllTabs
  /\ UNCHANGED <<sim_input, sim_output>>

(***************************************************************************)
(* Widget positions the model explores (each inside the widget's range).   *)
(***************************************************************************)
VipMValues == {500, 3000, 3500, 6000}
VipFValues == {1, 10, 25}
RiskRecencyValues == {15, 60, 120}
RiskFloorValues == {0, 800, 6000}
BufferValues == {-20, 0, 10, 50}
UnitCostValues == {0, 5, 12}
LossRateValues == {0, 60, 100}
LostMarginValues == {0, 8, 15}
ItemValues == DOMAIN rules_db
BasePriceValues == {100, 105}
BaseCostValues == {0, 60, 120}
BaseDemandValues == {100, 110}
\* Slider positions whose power comparisons stay within TLC's integers.  With
\* -10 and base_cost = 0 every sample's exact profit is the same.
ElasticityValues == {-30, -15, -10, -5}
\* The simulation as a function also takes 0, which the slider (-5.0 .. -0.1)
\* cannot produce.
ElasticityInputs == ElasticityValues \cup {-20, 0}
CenterLatValues == {508503000, 488566000}
CenterLonValues == {43517000, 23522000}
NPointsValues == {100, 500}

FirstRun ==
  /\ vip_m_threshold = 3000
  /\ vip_f_threshold = 10
  /\ risk_recency = 60
  /\ risk_value_floor = 800
  /\ buffer_pct = 10
  /\ unit_cost = 5
  /\ overstock_loss_rate = 60
  /\ lost_margin = 8
  /\ selected_item = "Beer"
  /\ base_price = 100
  /\ base_cost = 60
  /\ base_demand = 100
  /\ elasticity = -15
  /\ center_lat = 508503000
  /\ center_lon = 43517000
  /\ n_points = 500
  /\ interactions = 0
  /\ rfm_cache = load_rfm(Empty, Empty).cache
  /\ rfm_calls = load_rfm(Empty, Empty).calls
  /\ tab1 = Tab1(Widgets, load_rfm(Empty, Empty).value)
  /\ forecast_cache = load_forecast(Empty, Empty).cache
  /\ forecast_calls = load_forecast(Empty, Empty).calls
  /\ tab2 = Tab2(Widgets, load_forecast(Empty, Empty).value)
  /\ tab3 = Tab3(Widgets)
  /\ tab4 \in Tab4(Widgets)
  /\ geo_cache = load_geo(Widgets, Empty, Empty).cache
  /\ geo_calls = load_geo(Widgets, Empty, Empty).calls
  /\ tab5 = Tab5(load_geo(Widgets, Empty, Empty).value)
  /\ ran = AllTabs

\* Nothing: no input drawn, no result computed.
None == <<>>

Init == FirstRun /\ sim_input = None /\ sim_output = None

(***************************************************************************)
(* User interactions, one per widget.                                      *)
(***************************************************************************)
SetVipM(v) ==
  /\ v # vip_m_threshold
  /\ vip_m_threshold' = v
  /\ UNCHANGED <<vip_f_threshold, risk_recency, risk_value_floor>>
  /\ UNCHANGED <<tab2_widgets, tab3_widgets, tab4_widgets, tab5_widgets>>
  /\ Rerun

SetVipF(v) ==
  /\ v # vip_f_threshold
  /\ vip_f_threshold' = v
  /\ UNCHANGED <<vip_m_threshold, risk_recency, risk_value_floor>>
  /\ UNCHANGED <<tab2_widgets, tab3_widgets, tab4_widgets, tab5_widgets>>
  /\ Rerun

SetRiskRecency(v) ==
  /\ v # risk_recency
  /\ risk_recency' = v
  /\ UNCHANGED <<vip_m_threshold, vip_f_threshold, risk_value_floor>>
  /\ UNCHANGED <<tab2_widgets, tab3_widgets, tab4_widgets, tab5_widgets>>
  /\ Rerun

SetRiskFloor(v) ==
  /\ v # risk_value_floor
  /\ risk_value_floor' = v
  /\ UNCHANGED <<vip_m_threshold, vip_f_threshold, risk_recency>>
  /\ UNCHANGED <<tab2_widgets, tab3_widgets, tab4_widgets, tab5_widgets>>
  /\ Rerun

SetBufferPct(v) ==
  /\ v # buffer_pct
  /\ buffer_pct' = v
  /\ UNCHANGED <<unit_cost, overstock_loss_rate, lost_margin>>
  /\ UNCHANGED <<tab1_widgets, tab3_widgets, tab4_widgets, tab5_widgets>>
  /\ Rerun

SetUnitCost(v) ==
  /\ v # unit_cost
  /\ unit_cost' = v
  /\ UNCHANGED <<buffer_pct, overstock_loss_rate, lost_margin>>
  /\ UNCHANGED <<tab1_widgets, tab3_widgets, tab4_widgets, tab5_widgets>>
  /\ Rerun

SetLossRate(v) ==
  /\ v # overstock_loss_rate
  /\ overstock_loss_rate' = v
  /\ UNCHANGED <<buffer_pct, unit_cost, lost_margin>>
  /\ UNCHANGED <<tab1_widgets, tab3_widgets, tab4_widgets, tab5_widgets>>
  /\ Rerun

SetLostMargin(v) ==
  /\ v # lost_margin
  /\ lost_margin' = v
  /\ UNCHANGED <<buffer_pct, unit_cost, overstock_loss_rate>>
  /\ UNCHANGED <<tab1_widgets, tab3_widgets, tab4_widgets, tab5_widgets>>
  /\ Rerun

SelectItem(v) ==
  /\ v # selected_item
  /\ selected_item' = v
  /\ UNCHANGED <<tab1_widgets, tab2_widgets, tab4_widgets, tab5_widgets>>
  /\ Rerun

SetBasePrice(v) ==
  /\ v # base_price
  /\ base_price' = v
  /\ UNCHANGED <<base_cost, base_demand, elasticity>>
  /\ UNCHANGED <<tab1_widgets, tab2_widgets, tab3_widgets, tab5_widgets>>
  /\ Rerun

SetBaseCost(v) ==
  /\ v # base_cost
  /\ base_cost' = v
  /\ UNCHANGED <<base_price, base_demand, elasticity>>
  /\ UNCHANGED <<tab1_widgets, tab2_widgets, tab3_widgets, tab5_widgets>>
  /\ Rerun

SetBaseDemand(v) ==
  /\ v # base_demand
  /\ base_demand' = v
  /\ UNCHANGED <<base_price, base_cost, elasticity>>
  /\ UNCHANGED <<tab1_widgets, tab2_widgets, tab3_widgets, tab5_widgets>>
  /\ Rerun

SetElasticity(v) ==
  /\ v # elasticity
  /\ elasticity' = v
  /\ UNCHANGED <<base_price, base_cost, base_demand>>
  /\ UNCHANGED <<tab1_widgets, tab2_widgets, tab3_widgets, tab5_widgets>>
  /\ Rerun

SetCenterLat(v) ==
  /\ v # center_lat
  /\ center_lat' = v
  /\ UNCHANGED <<center_lon, n_points>>
  /\ UNCHANGED <<tab1_widgets, tab2_widgets, tab3_widgets, tab4_widgets>>
  /\ Rerun

SetCenterLon(v) ==
  /\ v # center_lon
  /\ center_lon' = v
  /\ UNCHANGED <<center_lat, n_points>>
  /\ UNCHANGED <<tab1_widgets, tab2_widgets, tab3_widgets, tab4_widgets>>
  /\ Rerun

SetNPoints(v) ==
  /\ v # n_points
  /\ n_points' = v
  /\ UNCHANGED <<center_lat, center_lon>>
  /\ UNCHANGED <<tab1_widgets, tab2_widgets, tab3_widgets, tab4_widgets>>
  /\ Rerun

\* Interactions are counted only where all widgets may change.
Counted == interactions < MaxInteractions /\ interactions' = interactions + 1

Uncounted == UNCHANGED interactions

\* Here each widget of tabs 1, 2 and 4 moves between its default and one other
\* position; the per-tab specifications below move theirs over the full sets.
Next ==
  \/ \E v \in {3000, 500} : Counted /\ SetVipM(v)
  \/ \E v \in {10, 1} : Counted /\ SetVipF(v)
  \/ \E v \in {60, 120} : Counted /\ SetRiskRecency(v)
  \/ \E v \in {800, 0} : Counted /\ SetRiskFloor(v)
  \/ \E v \in {10, -20} : Counted /\ SetBufferPct(v)
  \/ \E v \in {5, 12} : Counted /\ SetUnitCost(v)
  \/ \E v \in {60, 100} : Counted /\ SetLossRate(v)
  \/ \E v \in {8, 15} : Counted /\ SetLostMargin(v)
  \/ \E v \in ItemValues : Counted /\ SelectItem(v)
  \/ \E v \in {100, 105} : Counted /\ SetBasePrice(v)
  \/ \E v \in {60, 0} : Counted /\ SetBaseCost(v)
  \/ \E v \in {100, 110} : Counted /\ SetBaseDemand(v)
  \/ \E v \in {-15, -30} : Counted /\ SetElasticity(v)
  \/ \E v \in CenterLatValues : Counted /\ SetCenterLat(v)
  \/ \E v \in CenterLonValues : Counted /\ SetCenterLon(v)
  \/ \E v \in NPointsValues : Counted /\ SetNPoints(v)

\* Every widget may change, up to MaxInteractions times.
Spec == Init /\ [][Next]_vars

NextSegmentation ==
  \/ \E v \in VipMValues : Uncounted /\ SetVipM(v)
  \/ \E v \in VipFValues : Uncounted /\ SetVipF(v)
  \/ \E v \in RiskRecencyValues : Uncounted /\ SetRiskRecency(v)
  \/ \E v \in RiskFloorValues : Uncounted /\ SetRiskFloor(v)

\* Only the tab1 sliders move, any number of times.
SpecSegmentation == Init /\ [][NextSegmentation]_vars

NextReplenishment ==
  \/ \E v \in BufferValues : Uncounted /\ SetBufferPct(v)
  \/ \E v \in UnitCostValues : Uncounted /\ SetUnitCost(v)
  \/ \E v \in LossRateValues : Uncounted /\ SetLossRate(v)
  \/ \E v \in LostMarginValues : Uncounted /\ SetLostMargin(v)

\* Only the tab2 widgets move.
SpecReplenishment == Init /\ [][NextReplenishment]_vars

NextDerived ==
  \/ \E v \in VipMValues : Uncounted /\ SetVipM(v)
  \/ \E v \in VipFValues : Uncounted /\ SetVipF(v)
  \/ \E v \in RiskRecencyValues : Uncounted /\ SetRiskRecency(v)
  \/ \E v \in RiskFloorValues : Uncounted /\ SetRiskFloor(v)
  \/ \E v \in BufferValues : Uncounted /\ SetBufferPct(v)

\* The thresholds and the buffer move: the widgets the derived columns read.
SpecDerived == Init /\ [][NextDerived]_vars

NextPricing ==
  \/ \E v \in BasePriceValues : Uncounted /\ SetBasePrice(v)
  \/ \E v \in BaseCostValues : Uncounted /\ SetBaseCost(v)
  \/ \E v \in BaseDemandValues : Uncounted /\ SetBaseDemand(v)
  \/ \E v \in ElasticityValues : Uncounted /\ SetElasticity(v)

\* Only the tab4 widgets move.
SpecPricing == Init /\ [][NextPricing]_vars

\* The tab4 computation as a function of its four inputs, taken out of the
\* session: elasticity 0 is an input here, though no slider position.
SimulationInputs ==
  [base_price : BasePriceValues \cup {1}, base_cost : BaseCostValues,
   base_demand : BaseDemandValues \cup {1}, elasticity : ElasticityInputs]

InitSimulation == FirstRun /\ sim_input \in SimulationInputs /\ sim_output = None

Simulate ==
  /\ sim_output = None
  /\ sim_output' \in Tab4(sim_input)
  /\ UNCHANGED <<tab1_widgets, tab2_widgets, tab3_widgets, tab4_widgets, tab5_widgets,
                 caches, tab1, tab2, tab3, tab4, tab5, ran, interactions, sim_input>>

NextSimulation == Simulate

SpecSimulation == InitSimulation /\ [][NextSimulation]_vars

(***************************************************************************)
(* Properties.                                                             *)
(***************************************************************************)
RfmKey == <<NCustomers, RfmSeed>>
ForecastKey == <<"2026-01-01", Periods, ForecastSeed>>
GeoKey == <<center_lat, center_lon, n_points, GeoSeed>>
DefaultGeoKey == <<508503000, 43517000, 500, GeoSeed>>

\* Customer records around every slider position the model uses.
RecordGrid ==
  [Recency : {14, 15, 60, 119}, Frequency : {1, 9, 10, 24},
   Monetary : {20, 799, 800, 3000, 5999}]

IsVip(row) == row.Monetary >= vip_m_threshold /\ row.Frequency >= vip_f_threshold

IsRisk(row) == row.Recency >= risk_recency /\ row.Monetary >= risk_value_floor

SegmentRule(row, label) ==
  /\ label \in {"VIP", "At Risk", "Standard"}
  /\ (label = "VIP") <=> IsVip(row)
  /\ (label = "At Risk") <=> (~IsVip(row) /\ IsRisk(row))
  /\ (label = "Standard") <=> (~IsVip(row) /\ ~IsRisk(row))

\* C1: every customer gets exactly one of VIP, At Risk, Standard: VIP iff
\* Monetary and Frequency reach the VIP thresholds, At Risk iff not VIP and
\* Recency and Monetary reach the risk thresholds, Standard otherwise; so a
\* customer meeting both conditions is VIP.  Checked on the rows of df_rfm and
\* on a grid of records, under every position of the four sliders.
SegmentationTotalExclusive ==
  /\ \A i \in 1..Len(tab1.df_rfm) :
       SegmentRule(tab1.df_rfm[i], tab1.df_rfm[i].Segment)
  /\ \A row \in RecordGrid :
       SegmentRule(row, segment(row, vip_m_threshold, vip_f_threshold,
                                risk_recency, risk_value_floor))

\* A customer who meets both conditions, after the sliders have moved, is VIP.
SegmentationWitness ==
  /\ vip_m_threshold # 3000
  /\ risk_recency # 60
  /\ \E i \in 1..Len(tab1.df_rfm) :
       /\ IsVip(tab1.df_rfm[i])
       /\ IsRisk(tab1.df_rfm[i])
       /\ tab1.df_rfm[i].Segment = "VIP"
  /\ \E i \in 1..Len(tab1.df_rfm) : tab1.df_rfm[i].Segment = "At Risk"

\* C2: with the forecast, unit_cost, overstock_loss_rate and lost_margin fixed,
\* moving buffer_pct from b1 to any b2 >= b1 (negative values included) never
\* lowers overstock_cost and never raises stockout_cost.
ReplenishmentMonotone ==
  [][(/\ buffer_pct' >= buffer_pct
      /\ unit_cost' = unit_cost
      /\ overstock_loss_rate' = overstock_loss_rate
      /\ lost_margin' = lost_margin)
     => (/\ tab2'.overstock_cost >= tab2.overstock_cost
         /\ tab2'.stockout_cost <= tab2.stockout_cost)]_vars

\* An under-order: a negative buffer costs stockouts and no overstock.
ReplenishmentWitness ==
  /\ buffer_pct < 0
  /\ unit_cost > 0 /\ overstock_loss_rate > 0 /\ lost_margin > 0
  /\ tab2.stockout_cost > 0
  /\ tab2.overstock_cost = 0

\* Margins on both sides of equality, with the lifts of the table.
MarginGrid ==
  [driver_margin : {5, 10, 35, 200}, target_margin : {5, 10, 35, 200},
   lift : {18, 50}]

\* C3: the recommendation is "Loss Leader" iff driver_margin < target_margin
\* and "Bundle" otherwise, equal margins included; nothing else is emitted.
\* Checked on the selected rule of rules_db and on a grid of margins.
StrategyTwoBranch ==
  /\ tab3.rule = rules_db[selected_item]
  /\ tab3.strategy \in {"Loss Leader", "Bundle"}
  /\ (tab3.strategy = "Loss Leader")
       <=> (tab3.rule.driver_margin < tab3.rule.target_margin)
  /\ \A r \in MarginGrid :
       strategy_of(r) = IF r.driver_margin < r.target_margin
                        THEN "Loss Leader" ELSE "Bundle"

\* The one rule of the table whose driver margin is the higher one.
StrategyWitness ==
  /\ selected_item = "Diapers"
  /\ tab3.rule.driver_margin > tab3.rule.target_margin
  /\ tab3.strategy = "Bundle"

BaseValues == base_price = 100 /\ base_cost = 60 /\ base_demand = 100

\* The base price, and a profit of 400 euros, in the units of tab4.
BasePricePoint == base_price * PctDen
Profit400 == RealOf(400 * 10 * PctDen)

\* C4 as stated: with P0 = 10, C = 6, Q0 = 100 the simulated series has a point
\* at r = 0 (Price = P0) whose Demand is exactly 100 and whose Profit is exactly
\* 400.
PricingBasePointSampled ==
  BaseValues =>
    \E i \in 1..NSamples :
      /\ price_change_pct[i] = 0
      /\ tab4.sim_prices[i] = BasePricePoint
      /\ RealEq(tab4.sim_demand[i], RealOf(100))
      /\ RealEq(tab4.sim_profit[i], Profit400)

\* C4 as amended: with P0 = 10, C = 6, Q0 = 100 and every elasticity, the demand
\* and profit formulas give exactly 100 and exactly 400 at Price = P0, but no
\* sample lies there: the 60 evenly spaced samples skip r = 0, the two middle
\* ones sit at r = -1/295 and r = +1/295, with Demand above and below 100.
PricingBasePointBetweenSamples ==
  BaseValues =>
    /\ RealEq(demand_at(BasePricePoint, Widgets), RealOf(100))
    /\ RealEq(profit_at(BasePricePoint, Widgets), Profit400)
    /\ \A i \in 1..NSamples :
         /\ price_change_pct[i] # 0
         /\ tab4.sim_prices[i] # BasePricePoint
         /\ ~RealEq(tab4.sim_demand[i], RealOf(100))
    /\ price_change_pct[NSamples \div 2] = -1
    /\ price_change_pct[NSamples \div 2 + 1] = 1
    /\ RealLess(RealOf(100), tab4.sim_demand[NSamples \div 2])
    /\ RealLess(tab4.sim_demand[NSamples \div 2 + 1], RealOf(100))

\* The base values again, after the elasticity slider has moved.
PricingBasePointWitness ==
  /\ BaseValues
  /\ elasticity = -30
  /\ tab4.sim_prices[NSamples \div 2] < BasePricePoint
  /\ tab4.sim_prices[NSamples \div 2 + 1] > BasePricePoint

\* C5: best_price is the sampled price at max_idx, lies in
\* [0.8 * base_price, 1.2 * base_price], and best_profit is the profit of that
\* same sample and is not below the profit of any sample.
ArgmaxInRange ==
  /\ tab4.max_idx \in 0..(NSamples - 1)
  /\ tab4.best_price = tab4.sim_prices[tab4.max_idx + 1]
  /\ tab4.best_profit = tab4.sim_profit[tab4.max_idx + 1]
  /\ 10 * tab4.best_price >= 8 * base_price * PctDen
  /\ 10 * tab4.best_price <= 12 * base_price * PctDen
  /\ \A i \in 1..NSamples :
       /\ tab4.sim_prices[i] = price_at(price_change_pct[i], Widgets)
       /\ RealEq(tab4.sim_profit[i], profit_at(tab4.sim_prices[i], Widgets))
       /\ ~RealLess(tab4.best_profit, tab4.sim_profit[i])

\* An optimum strictly inside the range, after the inputs have changed.
ArgmaxWitness ==
  /\ elasticity # -15
  /\ tab4.max_idx > 0
  /\ tab4.max_idx < NSamples - 1
  /\ RealLess(tab4.sim_profit[1], tab4.best_profit)
  /\ RealLess(tab4.sim_profit[NSamples], tab4.best_profit)

\* C6: with elasticity = 0 the Demand is base_demand at every sampled price,
\* Profit rises with Price, and the same argmax reports the highest sample,
\* 1.2 * base_price.  Elasticity 0 is no position of the slider; the property
\* is one of the computation, given 0 as its input.
ZeroElasticityBoundary ==
  (sim_output # None /\ sim_input.elasticity = 0) =>
    /\ \A i \in 1..NSamples :
         RealEq(sim_output.sim_demand[i], RealOf(sim_input.base_demand))
    /\ \A i \in 1..(NSamples - 1) :
         /\ sim_output.sim_prices[i] < sim_output.sim_prices[i + 1]
         /\ RealLess(sim_output.sim_profit[i], sim_output.sim_profit[i + 1])
    /\ sim_output.max_idx = NSamples - 1
    /\ argmax(sim_output.sim_profit) = {NSamples - 1}
    /\ 10 * sim_output.best_price = 12 * sim_input.base_price * PctDen
    /\ RealEq(sim_output.best_profit,
              RealOf((sim_output.best_price - sim_input.base_cost * PctDen)
                       * sim_input.base_demand))

\* Elasticity 0 with a cost equal to the highest sampled price: every other
\* sample loses money and the reported optimum earns nothing.
ZeroElasticityWitness ==
  /\ sim_output # None
  /\ sim_input.elasticity = 0
  /\ sim_input.base_cost = 120
  /\ sim_input.base_price = 100
  /\ sim_output.max_idx = NSamples - 1
  /\ sim_output.sim_profit[1].c < 0
  /\ sim_output.best_profit.c = 0

\* C7: when no customer is At Risk the metrics are computed all the same: the
\* count is 0, the summed Monetary is 0 and the mean Frequency is NaN, always
\* that one value; with At-Risk customers the mean is an ordinary number.
EmptyAtRiskAggregate ==
  /\ tab1.risk_count = Len(users_of(tab1.df_rfm, "At Risk"))
  /\ tab1.risk_count = 0 => /\ tab1.risk_value = 0
                            /\ tab1.risk_frequency_mean = NaN
  /\ tab1.risk_count > 0 => /\ tab1.risk_value > 0
                            /\ tab1.risk_frequency_mean.den > 0

\* No customer has a Recency of 120 days, so that slider position empties the set.
EmptyAtRiskWitness ==
  /\ risk_recency = 120
  /\ tab1.risk_count = 0
  /\ tab1.vip_count > 0
  /\ tab1.risk_frequency_mean = NaN

CacheKept(cache, calls) ==
  \A k \in DOMAIN cache : calls[k] = 1

\* C8: a data set generated for a parameter tuple is stored once and never
\* changes; every later request with that tuple returns it without running
\* the generator again, a request with a new tuple returns the set generated
\* for the new tuple, and the geo set has exactly n_points points.
MemoizedGeneration ==
  /\ [](/\ RfmKey \in DOMAIN rfm_cache
        /\ ForecastKey \in DOMAIN forecast_cache
        /\ GeoKey \in DOMAIN geo_cache
        /\ DOMAIN rfm_calls = DOMAIN rfm_cache
        /\ DOMAIN forecast_calls = DOMAIN forecast_cache
        /\ DOMAIN geo_calls = DOMAIN geo_cache
        /\ CacheKept(rfm_cache, rfm_calls)
        /\ CacheKept(forecast_cache, forecast_calls)
        /\ CacheKept(geo_cache, geo_calls)
        /\ tab5.df_map = geo_cache[GeoKey]
        /\ tab5.df_map = load_geo_data(center_lat, center_lon, n_points, GeoSeed)
        /\ Len(tab5.df_map) = n_points
        /\ \A k \in DOMAIN geo_cache : Len(geo_cache[k]) = k[3])
  /\ [][/\ \A k \in DOMAIN rfm_cache :
             k \in DOMAIN rfm_cache' /\ rfm_cache'[k] = rfm_cache[k]
        /\ \A k \in DOMAIN forecast_cache :
             k \in DOMAIN forecast_cache' /\ forecast_cache'[k] = forecast_cache[k]
        /\ \A k \in DOMAIN geo_cache :
             k \in DOMAIN geo_cache' /\ geo_cache'[k] = geo_cache[k]]_vars

\* The default tuple requested again after another one was generated.
MemoizedGenerationWitness ==
  /\ interactions >= 2
  /\ GeoKey = DefaultGeoKey
  /\ Cardinality(DOMAIN geo_cache) = 2
  /\ geo_calls[DefaultGeoKey] = 1
  /\ tab5.df_map = geo_cache[DefaultGeoKey]
  /\ \E k \in DOMAIN geo_cache : Len(geo_cache[k]) = 100

\* C9: whatever the thresholds and the buffer have been, the source columns of
\* both frames are the generated ones (in the frames and in the caches, which
\* hold the generated values from the first run on and never change), every
\* Segment is segment() of its own row under the current thresholds and every
\* Order_Qty is its own row's Forecast * (1 + buffer_pct / 100).
DerivedFieldsFresh ==
  /\ rfm_cache[RfmKey] = load_rfm_data(NCustomers, RfmSeed)
  /\ forecast_cache[ForecastKey] = load_forecast_data("2026-01-01", Periods, ForecastSeed)
  /\ [][rfm_cache' = rfm_cache /\ forecast_cache' = forecast_cache]_vars
  /\ [](/\ Len(tab1.df_rfm) = NCustomers
        /\ \A i \in 1..NCustomers :
             /\ SourceOf(tab1.df_rfm[i]) = rfm_cache[RfmKey][i]
             /\ tab1.df_rfm[i].Segment =
                  segment(rfm_cache[RfmKey][i], vip_m_threshold, vip_f_threshold,
                          risk_recency, risk_value_floor)
        /\ Len(tab2.df_inv) = Periods
        /\ \A i \in 1..Periods :
             /\ tab2.df_inv[i].Date = forecast_cache[ForecastKey][i].Date
             /\ tab2.df_inv[i].Forecast = forecast_cache[ForecastKey][i].Forecast
             /\ tab2.df_inv[i].Order_Qty = tab2.df_inv[i].Forecast * (100 + buffer_pct))

\* Thresholds and buffer all away from their defaults, with a Segment that
\* differs from the one the defaults give.
DerivedFieldsWitness ==
  /\ vip_m_threshold = 500
  /\ risk_recency = 15
  /\ buffer_pct = -20
  /\ \E i \in 1..NCustomers :
       tab1.df_rfm[i].Segment # segment(tab1.df_rfm[i], 3000, 10, 60, 800)
  /\ \E i \in 1..Periods : tab2.df_inv[i].Order_Qty < 100 * tab2.df_inv[i].Forecast

OwnerOf ==
  [tab1 |-> tab1_widgets, tab2 |-> tab2_widgets, tab3 |-> tab3_widgets,
   tab4 |-> tab4_widgets, tab5 |-> tab5_widgets]

Outputs == [tab1 |-> tab1, tab2 |-> tab2, tab3 |-> tab3, tab4 |-> tab4, tab5 |-> tab5]

\* C10 as stated: a change of one module's parameter recomputes the owning
\* module only and leaves the outputs of the other four unchanged.
OwnerOnlyRecomputed ==
  [][\A t \in AllTabs :
       IF OwnerOf'[t] # OwnerOf[t] THEN t \in ran'
       ELSE t \notin ran' /\ Outputs'[t] = Outputs[t]]_vars

\* C10 as amended: a change of one module's parameter runs the whole script
\* again, so all five modules are recomputed; the owning module's outputs are
\* those of its new parameters and the outputs of the other four are unchanged.
AllRecomputedOthersUnchanged ==
  [][/\ ran' = AllTabs
     /\ \A t \in AllTabs : OwnerOf'[t] = OwnerOf[t] => Outputs'[t] = Outputs[t]
     /\ tab1_widgets' # tab1_widgets => tab1' = Tab1(Widgets', rfm_cache[RfmKey])
     /\ tab2_widgets' # tab2_widgets => tab2' = Tab2(Widgets', forecast_cache[ForecastKey])
     /\ tab3_widgets' # tab3_widgets => tab3' = Tab3(Widgets')
     /\ tab4_widgets' # tab4_widgets => tab4' \in Tab4(Widgets')
     /\ tab5_widgets' # tab5_widgets =>
          tab5'.df_map = load_geo_data(center_lat', center_lon', n_points', GeoSeed)
     /\ rfm_calls' = rfm_calls
     /\ forecast_calls' = forecast_calls]_vars

\* Two interactions in two different modules, every block run, tab3 untouched.
ModuleIndependenceWitness ==
  /\ interactions = 2
  /\ unit_cost # 5
  /\ elasticity # -15
  /\ ran = AllTabs
  /\ tab3 = Tab3([selected_item |-> "Beer"])
  /\ tab2.overstock_cost > 0
====
